---- MODULE Spec2Model ----
(***************************************************************************)
(* Model of xbase's two plugin classes:                                    *)
(*   - ClampStatic.draw_layout   (src/src/xbase/layout/clamp/__init__.py)  *)
(*   - SchTemplate               (src/src/xbase/schematic/sch_template.py) *)
(*                                                                         *)
(* draw_layout is modelled as a sequential program with a program counter, *)
(* one action per block of the method.  Values the method reads from its   *)
(* parameters, from the technology data and from the host framework's grid *)
(* and track manager are drawn nondeterministically at the step that reads *)
(* them and then kept in the state.  Layout objects the method adds to the *)
(* cell (instance, rectangle arrays, wires, pins) are kept as sets and     *)
(* sequences, so that the state after an exception shows what was already  *)
(* added.                                                                  *)
(*                                                                         *)
(* The host framework (bag, pybag) is not part of the repository.  Its     *)
(* queries are modelled by their results: get_num_wires_between returns    *)
(* any integer of NumWires, spread_wires any increasing list of the        *)
(* requested length.  The window of lines 131-150 (ext, hm_lower,          *)
(* hm_upper, coord_to_track) and the wire width only feed these queries    *)
(* and are not kept.  Pin lists are never empty.  A wire array is kept as  *)
(* its layer, net and TrackID; the cell keeps the layer and net of each    *)
(* wire it was given.  For SchTemplate the placement offsets dx, dy do not *)
(* enter the instance table and are left out; instance names passed to     *)
(* add_instance are fresh, and a call that raises ends the design.         *)
(***************************************************************************)
EXTENDS Integers, Sequences, FiniteSets, TLC

\* ------------------------------------------------------------------ bounds
MaxLayer == 4
MaxTrack == 4
MaxNumWires == 2
MaxSpan == 3
MaxPitch == 2
MaxUnit == 2

\* ------------------------------------------------------- program constants
vdd_idx == 0
vss_idx == 1
num_sig == 2

\* ------------------------------------------------------------------- state
VARIABLES
    pc,               \* position in draw_layout
    err,              \* the exception that ended draw_layout, NoErr if none
    p_top_layer,      \* params.get('top_layer'); 0 stands for None (both falsy)
    c_top_layer,      \* clamp_info['top_layer']
    used_port_layer,  \* clamp_info['used_port_layer']
    cell_known,       \* cell_name in clamp_info['types']
    top_layer,        \* self._top_layer
    conn_layer,       \* self._conn_layer
    insts,            \* instances added to the cell
    bbox,             \* inst.bound_box
    size_calls,       \* arguments of set_size_from_bound_box
    rect_arr_list,    \* clamp_info['rect_arr_list']
    rect_arrays,      \* arguments of the add_rect_array calls, in order
    vdd_hm,           \* inst.get_all_port_pins('VDD', used_port_layer)
    vss_hm,           \* inst.get_all_port_pins('VSS', used_port_layer)
    nc_hm,            \* inst.get_all_port_pins('NC', used_port_layer)
    num_wires,        \* last result of tr_manager.get_num_wires_between
    idx_list,         \* last result of tr_manager.spread_wires
    plus_tid,         \* TrackID of VDD on the last routed layer
    minus_tid,        \* TrackID of VSS on the last routed layer
    plus_port,        \* VDD wire array carried upward
    minus_port,       \* VSS wire array carried upward
    wires,            \* wires (with their vias) added to the cell
    routed,           \* layers on which supply TrackIDs were allocated, in order
    pins,             \* pins added to the cell
    rects,            \* rectangles added by add_rect
    sch_params_set,   \* self.sch_params has been assigned
    sch_insts,        \* SchTemplate: instance name -> master and connections
    sch_pins,         \* SchTemplate: pins of the schematic
    sch_phase,        \* SchTemplate: "design", "post" or "error"
    sch_err,          \* SchTemplate: exception raised by the last call
    sch_last          \* SchTemplate: the last call and its arguments

cfgVars == <<p_top_layer, c_top_layer, used_port_layer, cell_known, top_layer, conn_layer>>
placeVars == <<insts, bbox, size_calls>>
rectVars == <<rect_arr_list, rect_arrays>>
pinInVars == <<vdd_hm, vss_hm>>
routeVars == <<num_wires, idx_list, plus_tid, minus_tid, plus_port, minus_port, wires, routed>>
outVars == <<pins, rects, sch_params_set, nc_hm>>
layVars == <<pc, err, cfgVars, placeVars, rectVars, pinInVars, routeVars, outVars>>
schVars == <<sch_insts, sch_pins, sch_phase, sch_err, sch_last>>
vars == <<layVars, schVars>>

\* ----------------------------------------------------------------- helpers
Range(s) == {s[i] : i \in DOMAIN s}

\* The orderings of the elements of S.
Orderings(S) ==
    {s \in [1..Cardinality(S) -> S] : \A i, j \in DOMAIN s : i # j => s[i] # s[j]}

\* Python's range(a, b) as a sequence.
PyRange(a, b) == [i \in 1..(IF b > a THEN b - a ELSE 0) |-> a + i - 1]

\* Python's dict.get(key, default) on a function used as a mapping.
Get(d, key, default) == IF key \in DOMAIN d THEN d[key] ELSE default

NoErr == [kind |-> "", layer |-> 0, msg |-> ""]
NoTid == [layer |-> 0, base |-> 0, num |-> 0, pitch |-> 0]
NoWire == [layer |-> 0, net |-> "", tid |-> NoTid]

\* ------------------------------------------------- inputs of draw_layout
Layers == 1..MaxLayer

\* clamp_info['top_layer']: the technology's default pin layer.
TechTopLayers == {MaxLayer}

\* params.get('top_layer'): None or a layer.  None and 0 are both falsy
\* for the test on line 65, and 0 stands for either.
TopLayerParams == 0..MaxLayer

\* config['size']: the black box's bounding box is (0, 0, w, h).
Sizes == {<<w, h>> : w \in {MaxSpan}, h \in {MaxSpan}}
SizesWide == {<<w, h>> : w \in 1..MaxSpan, h \in 1..MaxSpan}

EmptyMap == [k \in {} |-> 0]

\* rect_arr['edge_margin']: a mapping with any of the keys xl, xh, yl, yh.
EdgeMargins ==
    {a @@ b @@ c @@ d :
        a \in {EmptyMap, "xl" :> 1}, b \in {EmptyMap, "xh" :> -1},
        c \in {EmptyMap, "yl" :> 1}, d \in {EmptyMap, "yh" :> -1}}

LayPurp == <<"rect_lay", "drawing">>

\* The rectangle-array specs of the technology file: every key but lay_purp
\* is optional.
RectArrSpecsWide ==
    {em @@ sx @@ wx @@ sy @@ hy @@ ("lay_purp" :> LayPurp) :
        em \in {EmptyMap} \cup {"edge_margin" :> e : e \in EdgeMargins},
        sx \in {EmptyMap} \cup {"spx" :> v : v \in 0..MaxPitch},
        wx \in {EmptyMap} \cup {"w_unit" :> v : v \in 1..MaxUnit},
        sy \in {EmptyMap} \cup {"spy" :> v : v \in 0..MaxPitch},
        hy \in {EmptyMap} \cup {"h_unit" :> v : v \in 1..MaxUnit}}

RectArrListsWide == {<<ra>> : ra \in RectArrSpecsWide}

\* A few lists for the full run of draw_layout: none, an array
\* followed by a spec that lacks w_unit, an array and a full-span rectangle.
RaFull == "lay_purp" :> LayPurp
RaArray == ("edge_margin" :> ("xl" :> 1)) @@ ("spx" :> MaxPitch) @@ ("w_unit" :> 1)
              @@ ("spy" :> 1) @@ ("h_unit" :> MaxUnit) @@ ("lay_purp" :> LayPurp)
RaNoUnit == ("spx" :> 1) @@ ("lay_purp" :> LayPurp)
RectArrLists == {<<>>, <<RaArray, RaNoUnit>>, <<RaArray, RaFull>>}

\* Pin rectangles (xl, yl, xh, yh) of the black box on used_port_layer.
VddRects == {<<0, 10, 5, 20>>, <<0, 40, 5, 50>>}
VssRects == {<<0, 60, 5, 70>>, <<0, 80, 5, 90>>}
NcRects == {<<0, 25, 5, 35>>}
VddPinLists == Orderings(VddRects)
VssPinLists == Orderings(VssRects)
NcPinLists == {<<>>, <<(CHOOSE r \in NcRects : TRUE)>>}

\* tr_manager.get_num_wires_between(...): the number of 'sup' wires that
\* fit between the two window ends.
NumWires == (0 - MaxNumWires)..MaxNumWires

\* tr_manager.spread_wires(layer, names, l_idx, r_idx, ...): one track index
\* per name, increasing.
RECURSIVE IncreasingFrom(_, _)
IncreasingFrom(num, lo) ==
    IF num = 0 THEN {<<>>}
    ELSE UNION {{<<a>> \o s : s \in IncreasingFrom(num - 1, a + 1)} : a \in lo..MaxTrack}

SpreadWires(num) == IncreasingFrom(num, 0)

\* ------------------------------------------------- lines 63-81: placement
ResolveTopLayer(param, tech) == IF param = 0 THEN tech ELSE param

\* Mutant of LayerOrderOk: the assertion accepts used_port_layer = top_layer.
LayerOrderOk_le(used, port) == used <= port

LayerOrderOk(used, port) == used < port

\* ------------------------------------------- lines 93-115: rectangle arrays
MissingUnit(ra) ==
    \/ Get(ra, "spx", 0) # 0 /\ "w_unit" \notin DOMAIN ra
    \/ Get(ra, "spy", 0) # 0 /\ "h_unit" \notin DOMAIN ra

\* Mutant of NumRep: the unit size is not subtracted from the span.
NumRep_nounit(lo, hi, unit, sp) == (hi - lo) \div sp + 1

\* Lines 105 and 112: the repeat count of an axis with a pitch.
NumRep(lo, hi, unit, sp) == (hi - lo - unit) \div sp + 1

\* Mutant of Axis: with a pitch of 0 the rectangle is clipped to the unit
\* size when the spec gives one.
Axis_unit(lo, hi, sp, ra, unit_key) ==
    IF sp = 0
    THEN [num |-> 1, hi |-> IF unit_key \in DOMAIN ra THEN lo + ra[unit_key] ELSE hi]
    ELSE [num |-> (hi - lo - ra[unit_key]) \div sp + 1, hi |-> lo + ra[unit_key]]

\* Lines 100-106 and 107-113: one axis of a rectangle array; unit_key is
\* 'w_unit' or 'h_unit', read only when the pitch is not 0.
Axis(lo, hi, sp, ra, unit_key) ==
    IF sp = 0
    THEN [num |-> 1, hi |-> hi]
    ELSE [num |-> NumRep(lo, hi, ra[unit_key], sp), hi |-> lo + ra[unit_key]]

\* Lines 95-115: the add_rect_array call of one spec.
RectArrCall(bb, ra) ==
    LET edge_margin == Get(ra, "edge_margin", EmptyMap)
        rect_xl == bb[1] + Get(edge_margin, "xl", 0)
        rect_xh == bb[3] + Get(edge_margin, "xh", 0)
        rect_yl == bb[2] + Get(edge_margin, "yl", 0)
        rect_yh == bb[4] + Get(edge_margin, "yh", 0)
        spx == Get(ra, "spx", 0)
        spy == Get(ra, "spy", 0)
        x == Axis(rect_xl, rect_xh, spx, ra, "w_unit")
        y == Axis(rect_yl, rect_yh, spy, ra, "h_unit")
    IN  [lp |-> ra["lay_purp"], box |-> <<rect_xl, rect_yl, x.hi, y.hi>>,
         num_x |-> x.num, num_y |-> y.num, spx |-> spx, spy |-> spy]

\* Mutant of FirstBad: every spec is looked up before any array is added.
FirstBad_upfront(lst) ==
    IF \E i \in DOMAIN lst :
          \/ Get(lst[i], "spx", 0) # 0 /\ "w_unit" \notin DOMAIN lst[i]
          \/ Get(lst[i], "spy", 0) # 0 /\ "h_unit" \notin DOMAIN lst[i]
    THEN 1
    ELSE Len(lst) + 1

\* Index of the first spec whose lookup raises KeyError, Len + 1 if none.
FirstBad(lst) ==
    IF \E i \in DOMAIN lst : MissingUnit(lst[i])
    THEN CHOOSE i \in DOMAIN lst :
            MissingUnit(lst[i]) /\ \A j \in 1..(i - 1) : ~MissingUnit(lst[j])
    ELSE Len(lst) + 1

\* --------------------------------------------------- lines 119-191: routing
Raise(kind, layer, msg) == [kind |-> kind, layer |-> layer, msg |-> msg]

FirstTrLayer(used) == used + 1

\* Lines 151 and 180: the fitting wires plus the two at the window ends.
NumSlots(m) == m + 2

\* Lines 152 and 181.
Infeasible(num) == num < num_sig

\* Mutant of RedoRouting: the message names the layer below.
RedoRouting_prev(layer) ==
    [kind |-> "ValueError", layer |-> layer - 1, msg |-> "Redo routing on layer"]

\* Lines 153 and 182.
RedoRouting(layer) == Raise("ValueError", layer, "Redo routing on layer")

WiresPerNet(num) == num \div num_sig

\* Mutant of TrackPitch: the pitch of one net is the spacing of the list.
TrackPitch_single(idx) == idx[2] - idx[1]

TrackPitch(idx) == (idx[2] - idx[1]) * num_sig

\* Mutant of PlusTid: VDD starts on the VSS position.
PlusTid_vss(layer, idx, n, p) ==
    [layer |-> layer, base |-> idx[vss_idx + 1], num |-> n, pitch |-> p]

PlusTid(layer, idx, n, p) ==
    [layer |-> layer, base |-> idx[vdd_idx + 1], num |-> n, pitch |-> p]

MinusTid(layer, idx, n, p) ==
    [layer |-> layer, base |-> idx[vss_idx + 1], num |-> n, pitch |-> p]

\* The track indices a TrackID occupies.
Tracks(tid) == {tid.base + k * tid.pitch : k \in 0..(tid.num - 1)}

\* connect_bbox_to_tracks / connect_to_tracks: the wire array on the tracks.
WireOn(net, tid) == [layer |-> tid.layer, net |-> net, tid |-> tid]

\* What the cell keeps of a wire array it was given: its layer and net.
Added(warr) == [layer |-> warr.layer, net |-> warr.net]

\* connect_wires: wire arrays on the same tracks are merged into one.
RECURSIVE ConnectWires(_)
ConnectWires(ws) ==
    IF ws = <<>> THEN <<>>
    ELSE LET rest == ConnectWires(Tail(ws))
         IN  IF Head(ws) \in Range(rest) THEN rest ELSE <<Head(ws)>> \o rest

\* Mutant of UpLayers: the loop starts again on tr_layer.
UpLayers_again(tr_layer, port_layer) ==
    IF port_layer > tr_layer THEN PyRange(tr_layer, port_layer + 1) ELSE <<>>

\* Mutant of UpLayers: the loop stops below port_layer.
UpLayers_short(tr_layer, port_layer) ==
    IF port_layer > tr_layer THEN PyRange(tr_layer + 1, port_layer) ELSE <<>>

\* range(tr_layer + 1, port_layer + 1), entered only if port_layer > tr_layer.
UpLayers(tr_layer, port_layer) ==
    IF port_layer > tr_layer THEN PyRange(tr_layer + 1, port_layer + 1) ELSE <<>>

\* ------------------------------------------------------ lines 193-200: pins
WirePin(name, warr) ==
    [name |-> name, layer |-> warr.layer, geom |-> warr.tid, hide |-> FALSE, connect |-> TRUE]

PrimPin(name, layer, box) ==
    [name |-> name, layer |-> layer, geom |-> box, hide |-> TRUE, connect |-> FALSE]

\* ------------------------------------------------------------ draw_layout
LayInit ==
    /\ pc = "start"
    /\ err = NoErr
    /\ p_top_layer = 0
    /\ c_top_layer = 0
    /\ used_port_layer = 0
    /\ cell_known = FALSE
    /\ top_layer = -1
    /\ conn_layer = -1
    /\ insts = {}
    /\ bbox = <<0, 0, 0, 0>>
    /\ size_calls = <<>>
    /\ rect_arr_list = <<>>
    /\ rect_arrays = <<>>
    /\ vdd_hm = <<>>
    /\ vss_hm = <<>>
    /\ nc_hm = <<>>
    /\ num_wires = 0
    /\ idx_list = <<>>
    /\ plus_tid = NoTid
    /\ minus_tid = NoTid
    /\ plus_port = NoWire
    /\ minus_port = NoWire
    /\ wires = {}
    /\ routed = <<>>
    /\ pins = {}
    /\ rects = {}
    /\ sch_params_set = FALSE

\* Lines 63-81: resolve the top layer, check the layer order, look up the
\* cell type.
Resolve ==
    /\ pc = "start"
    /\ \E param \in TopLayerParams, tech \in TechTopLayers, used \in Layers, known \in BOOLEAN :
        LET top == ResolveTopLayer(param, tech)
            port_layer == top
        IN  /\ p_top_layer' = param
            /\ c_top_layer' = tech
            /\ used_port_layer' = used
            /\ cell_known' = known
            /\ top_layer' = top
            /\ conn_layer' = port_layer
            /\ IF ~LayerOrderOk(used, port_layer)
               THEN /\ pc' = "error"
                    /\ err' = Raise("AssertionError", 0, "top_layer must be greater than used_port_layer")
               ELSE IF ~known
               THEN /\ pc' = "error"
                    /\ err' = Raise("KeyError", 0, "types[cell_name]")
               ELSE /\ pc' = "place"
                    /\ err' = err
    /\ UNCHANGED <<placeVars, rectVars, pinInVars, routeVars, outVars, schVars>>

\* Lines 84-90: make the black-box master, add the instance, set the size.
Place ==
    /\ pc = "place"
    /\ \E size \in Sizes :
        LET bb == <<0, 0, size[1], size[2]>>
        IN  /\ insts' = insts \cup {[name |-> "XINST", top_layer |-> used_port_layer, size |-> size]}
            /\ bbox' = bb
            /\ size_calls' = Append(size_calls, [layer |-> conn_layer, box |-> bb, round_up |-> TRUE])
    /\ pc' = "rects"
    /\ UNCHANGED <<err, cfgVars, rectVars, pinInVars, routeVars, outVars, schVars>>

\* Lines 93-115: the whole loop over rect_arr_list.  A spec with a pitch and
\* no unit size raises KeyError; the arrays of the specs before it stay.
AddRectArrays(lists) ==
    /\ pc = "rects"
    /\ \E lst \in lists :
        LET bad == FirstBad(lst)
        IN  /\ rect_arr_list' = lst
            /\ rect_arrays' = rect_arrays \o [i \in 1..(bad - 1) |-> RectArrCall(bbox, lst[i])]
            /\ IF bad <= Len(lst)
               THEN /\ pc' = "error"
                    /\ err' = Raise("KeyError", 0, "rect_arr unit")
               ELSE /\ pc' = "route"
                    /\ err' = err
    /\ UNCHANGED <<cfgVars, placeVars, pinInVars, routeVars, outVars, schVars>>

Decorate == AddRectArrays(RectArrLists)

\* Lines 119-171: first hop, from the pin rectangles on used_port_layer to
\* tracks on used_port_layer + 1.
FirstHop ==
    /\ pc = "route"
    /\ \E vdd \in VddPinLists, vss \in VssPinLists, m \in NumWires :
        LET tr_layer == FirstTrLayer(used_port_layer)
            vm_num == NumSlots(m)
            n == WiresPerNet(vm_num)
        IN  /\ vdd_hm' = vdd
            /\ vss_hm' = vss
            /\ num_wires' = m
            /\ IF Infeasible(vm_num)
               THEN /\ pc' = "error"
                    /\ err' = RedoRouting(tr_layer)
                    /\ UNCHANGED <<idx_list, plus_tid, minus_tid, plus_port, minus_port,
                                   wires, routed>>
               ELSE \E vm_idx_list \in SpreadWires(num_sig * n) :
                    LET p == TrackPitch(vm_idx_list)
                        plus_vm_tid == PlusTid(tr_layer, vm_idx_list, n, p)
                        minus_vm_tid == MinusTid(tr_layer, vm_idx_list, n, p)
                        plus_vm == [i \in DOMAIN vdd |-> WireOn("VDD", plus_vm_tid)]
                        minus_vm == [i \in DOMAIN vss |-> WireOn("VSS", minus_vm_tid)]
                    IN  /\ idx_list' = vm_idx_list
                        /\ plus_tid' = plus_vm_tid
                        /\ minus_tid' = minus_vm_tid
                        /\ plus_port' = ConnectWires(plus_vm)[1]
                        /\ minus_port' = ConnectWires(minus_vm)[1]
                        /\ wires' = wires \cup {Added(w) : w \in Range(plus_vm) \cup Range(minus_vm)}
                        /\ routed' = Append(routed, tr_layer)
                        /\ pc' = IF UpLayers(tr_layer, conn_layer) # <<>> THEN "up" ELSE "pins"
                        /\ err' = err
    /\ UNCHANGED <<cfgVars, placeVars, rectVars, outVars, schVars>>

\* Lines 175-191: one iteration of the loop that routes up to port_layer.
UpHop ==
    /\ pc = "up"
    /\ \E m \in NumWires :
        LET layers == UpLayers(FirstTrLayer(used_port_layer), conn_layer)
            i == Len(routed)
            layer == layers[i]
            num == NumSlots(m)
            n == WiresPerNet(num)
        IN  /\ num_wires' = m
            /\ IF Infeasible(num)
               THEN /\ pc' = "error"
                    /\ err' = RedoRouting(layer)
                    /\ UNCHANGED <<idx_list, plus_tid, minus_tid, plus_port, minus_port,
                                   wires, routed>>
               ELSE \E new_idx_list \in SpreadWires(num_sig * n) :
                    LET p == TrackPitch(new_idx_list)
                        new_plus_tid == PlusTid(layer, new_idx_list, n, p)
                        new_minus_tid == MinusTid(layer, new_idx_list, n, p)
                    IN  /\ idx_list' = new_idx_list
                        /\ plus_tid' = new_plus_tid
                        /\ minus_tid' = new_minus_tid
                        /\ plus_port' = WireOn("VDD", new_plus_tid)
                        /\ minus_port' = WireOn("VSS", new_minus_tid)
                        /\ wires' = wires \cup {Added(WireOn("VDD", new_plus_tid)),
                                            Added(WireOn("VSS", new_minus_tid))}
                        /\ routed' = Append(routed, layer)
                        /\ pc' = IF i < Len(layers) THEN "up" ELSE "pins"
                        /\ err' = err
    /\ UNCHANGED <<cfgVars, placeVars, rectVars, pinInVars, outVars, schVars>>

\* Lines 193-206: publish VDD and VSS, the hidden NC pins, the schematic
\* parameters.
Publish ==
    /\ pc = "pins"
    /\ \E nc \in NcPinLists :
        /\ nc_hm' = nc
        /\ pins' = pins \cup {WirePin("VDD", plus_port), WirePin("VSS", minus_port)}
                        \cup {PrimPin("NC", used_port_layer, b) : b \in Range(nc)}
        /\ rects' = rects \cup Range(nc)
    /\ sch_params_set' = TRUE
    /\ pc' = "done"
    /\ UNCHANGED <<err, cfgVars, placeVars, rectVars, pinInVars, routeVars, schVars>>

\* ------------------------------------------------------------ SchTemplate
\* Lines 62-63: the reference instance and the reference pins.
prev_name == "XINST"
prev_pins == <<"IN", "OUT", "VSUP">>

\* The master of the reference instance in the template.
RefMaster == <<"xbase", "sch_template_ref">>

\* Instance names a design may add; they differ from 'XINST' and 'X_0'.
SchNames == {"XA", "XB", "XC"}
LibNames == {"", "BAG_prim"}
CellNames == {"", "nmos4_standard"}
ConnLists == {<<>>, << <<"IN", "net1">> >>}
MosTypes == {"nch", "pch", "ptap"}

\* Module.array_instance(name, names): the instance is replaced by copies
\* of itself under the new names.
ArrayInstance(I, name, names) ==
    [k \in (DOMAIN I \ {name}) \cup Range(names) |-> IF k \in Range(names) THEN I[name] ELSE I[k]]

\* Module.rename_instance(old, new).
RenameInstance(I, old, new) ==
    [k \in (DOMAIN I \ {old}) \cup {new} |-> IF k = new THEN I[old] ELSE I[k]]

\* Module.replace_instance_master(name, lib, cell).
ReplaceInstanceMaster(I, name, lib, cell) ==
    [I EXCEPT ![name].master = <<lib, cell>>]

\* Module.reconnect_instance(name, conns).
ReconnectInstance(I, name, conns) ==
    [I EXCEPT ![name].conns = @ \o conns]

\* Module.remove_instance(name).
RemoveInstance(I, name) == [k \in DOMAIN I \ {name} |-> I[k]]

\* Lines 112-149: add_instance.  The result is the instance table the call
\* leaves behind and the exception it raises ("" if none).
AddInstanceResult(I, inst_name, lib_name, cell_name, conns, module_cls) ==
    IF ~module_cls /\ (lib_name = "" \/ cell_name = "")
    THEN [insts |-> I, err |-> "ValueError: lib_name and cell_name must be defined"]
    ELSE LET arrayed == ArrayInstance(I, prev_name, <<"X_0", inst_name>>)
             renamed == RenameInstance(arrayed, "X_0", prev_name)
         IN  IF module_cls
             THEN [insts |-> renamed, err |-> "ValueError: Not currently supported"]
             ELSE LET replaced == ReplaceInstanceMaster(renamed, inst_name, lib_name, cell_name)
                  IN  [insts |-> IF conns # <<>>
                                 THEN ReconnectInstance(replaced, inst_name, conns)
                                 ELSE replaced,
                       err |-> ""]

\* Lines 151-168: add_transistor.
AddTransistorResult(I, inst_name, mos_type, stack, conns) ==
    LET lib_name == IF stack THEN "xbase" ELSE "BAG_prim"
    IN  IF mos_type = "nch"
        THEN AddInstanceResult(I, inst_name, lib_name,
                               IF stack THEN "nmos4_stack" ELSE "nmos4_standard", conns, FALSE)
        ELSE IF mos_type = "pch"
        THEN AddInstanceResult(I, inst_name, lib_name,
                               IF stack THEN "pmos4_stack" ELSE "pmos4_standard", conns, FALSE)
        ELSE [insts |-> I, err |-> "ValueError: Unsupported mos_type for add_transistor"]

SchInit ==
    /\ sch_insts = (prev_name :> [master |-> RefMaster, conns |-> <<>>])
    /\ sch_pins = Range(prev_pins)
    /\ sch_phase = "design"
    /\ sch_err = ""
    /\ sch_last = [op |-> "", inst_name |-> "", module_cls |-> FALSE, lib_name |-> "", cell_name |-> ""]

SchApply(res) ==
    /\ sch_insts' = res.insts
    /\ sch_err' = res.err
    /\ sch_phase' = IF res.err = "" THEN sch_phase ELSE "error"
    /\ UNCHANGED sch_pins

AddInstance ==
    /\ sch_phase = "design"
    /\ \E inst_name \in SchNames \ DOMAIN sch_insts, lib_name \in LibNames,
          cell_name \in CellNames, conns \in ConnLists, module_cls \in BOOLEAN :
        /\ SchApply(AddInstanceResult(sch_insts, inst_name, lib_name, cell_name, conns, module_cls))
        /\ sch_last' = [op |-> "add_instance", inst_name |-> inst_name, module_cls |-> module_cls,
                        lib_name |-> lib_name, cell_name |-> cell_name]
    /\ UNCHANGED layVars

AddTransistor ==
    /\ sch_phase = "design"
    /\ \E inst_name \in SchNames \ DOMAIN sch_insts, mos_type \in MosTypes,
          stack \in BOOLEAN, conns \in ConnLists :
        /\ SchApply(AddTransistorResult(sch_insts, inst_name, mos_type, stack, conns))
        /\ sch_last' = [op |-> "add_transistor", inst_name |-> inst_name, module_cls |-> FALSE,
                        lib_name |-> mos_type, cell_name |-> ""]
    /\ UNCHANGED layVars

\* Lines 170-175: post_design.
PostDesign ==
    /\ sch_phase = "design"
    /\ sch_insts' = RemoveInstance(sch_insts, "XINST")
    /\ sch_pins' = sch_pins \ Range(prev_pins)
    /\ sch_phase' = "post"
    /\ sch_err' = ""
    /\ sch_last' = [op |-> "post_design", inst_name |-> "", module_cls |-> FALSE,
                    lib_name |-> "", cell_name |-> ""]
    /\ UNCHANGED layVars

\* --------------------------------------------------------- specifications
Init == LayInit /\ SchInit

Next == Resolve \/ Place \/ Decorate \/ FirstHop \/ UpHop \/ Publish

Spec == Init /\ [][Next]_vars

\* The rectangle-array loop on its own, over a wide range of specs: the
\* states after Place for one valid configuration and every size.
InitRect ==
    /\ SchInit
    /\ pc = "rects"
    /\ err = NoErr
    /\ p_top_layer = 0
    /\ c_top_layer \in TechTopLayers
    /\ used_port_layer = 1
    /\ cell_known = TRUE
    /\ top_layer = ResolveTopLayer(p_top_layer, c_top_layer)
    /\ conn_layer = top_layer
    /\ \E size \in SizesWide :
        /\ insts = {[name |-> "XINST", top_layer |-> used_port_layer, size |-> size]}
        /\ bbox = <<0, 0, size[1], size[2]>>
        /\ size_calls = <<[layer |-> conn_layer, box |-> bbox, round_up |-> TRUE]>>
    /\ rect_arr_list = <<>>
    /\ rect_arrays = <<>>
    /\ vdd_hm = <<>>
    /\ vss_hm = <<>>
    /\ nc_hm = <<>>
    /\ num_wires = 0
    /\ idx_list = <<>>
    /\ plus_tid = NoTid
    /\ minus_tid = NoTid
    /\ plus_port = NoWire
    /\ minus_port = NoWire
    /\ wires = {}
    /\ routed = <<>>
    /\ pins = {}
    /\ rects = {}
    /\ sch_params_set = FALSE

DecorateWide == AddRectArrays(RectArrListsWide)

NextRect == DecorateWide

SpecRect == InitRect /\ [][NextRect]_vars

NextSch == AddInstance \/ AddTransistor \/ PostDesign

SpecSch == Init /\ [][NextSch]_vars

\* ------------------------------------------------------------------ claims
SupplyNets == {"VDD", "VSS"}
Nothing == insts = {} /\ size_calls = <<>> /\ rect_arrays = <<>> /\ wires = {}
               /\ pins = {} /\ rects = {}
WiresOnLayers(S) == {[layer |-> l, net |-> n] : l \in S, n \in SupplyNets}

\* C1: the layers on which supply tracks are allocated are U+1, U+2, ... in
\* this order, one entry per layer, never beyond the top layer T; a run that
\* reaches pin publication has routed exactly U+1..T.
Theorem_C1 ==
    /\ \A i \in DOMAIN routed : routed[i] = used_port_layer + i
    /\ routed # <<>> => used_port_layer + Len(routed) <= top_layer
    /\ pc \in {"pins", "done"} =>
          routed = [i \in 1..(top_layer - used_port_layer) |-> used_port_layer + i]
    /\ pc = "up" => used_port_layer + Len(routed) < top_layer

Witness_C1 ==
    pc = "done" /\ used_port_layer = 1 /\ top_layer = 4 /\ routed = <<2, 3, 4>>

\* C2: when the slots of a routed layer, after the +2 guard, are fewer than
\* 2, draw_layout has stopped with an error that names that layer (the next
\* layer in order, between U+1 and T), and no pin has been published.
Theorem_C2 ==
    num_wires + 2 < 2 =>
        /\ pc = "error"
        /\ err.kind = "ValueError"
        /\ err.layer = used_port_layer + Len(routed) + 1
        /\ err.layer \in (used_port_layer + 1)..top_layer
        /\ pins = {}

Witness_C2 ==
    pc = "error" /\ num_wires = -1 /\ err.layer = used_port_layer + 2 /\ pins = {}

\* The errors C3 names: a configuration error (the layer order, a cell type
\* absent from the technology data) or a routing failure on some layer.
NamedError ==
    \/ err.kind = "AssertionError"
    \/ err.kind = "KeyError" /\ err.msg = "types[cell_name]"
    \/ err.kind = "ValueError"

\* C3 as stated: whenever draw_layout ends in a configuration error or a
\* routing failure, nothing has been added to the cell by that run: no
\* instance, no rectangle array, no wire, no pin.
Claim_C3 == pc = "error" /\ NamedError => Nothing

\* C3 amended: an error never leaves a pin or an add_rect rectangle, and
\* sch_params is not set.  The layer-order assertion and the cell-type lookup
\* fail before anything is added.  A later error leaves what was added before
\* it: the instance and the size; for a rectangle-array spec without its unit,
\* the arrays of the specs before it; for a routing failure on layer L, every
\* rectangle array and the wires of the layers U+1..L-1.
Theorem_C3 ==
    pc = "error" =>
        /\ pins = {} /\ rects = {} /\ ~sch_params_set
        /\ err.kind = "AssertionError" => Nothing
        /\ err.kind = "KeyError" /\ err.msg = "types[cell_name]" => Nothing
        /\ err.kind = "KeyError" /\ err.msg = "rect_arr unit" =>
              /\ insts # {} /\ Len(size_calls) = 1 /\ wires = {}
              /\ Len(rect_arrays) < Len(rect_arr_list)
              /\ \A i \in 1..Len(rect_arrays) : ~MissingUnit(rect_arr_list[i])
              /\ MissingUnit(rect_arr_list[Len(rect_arrays) + 1])
        /\ err.kind = "ValueError" =>
              /\ insts # {} /\ Len(size_calls) = 1
              /\ Len(rect_arrays) = Len(rect_arr_list)
              /\ wires = WiresOnLayers((used_port_layer + 1)..(err.layer - 1))

Witness_C3 ==
    /\ pc = "error" /\ err.kind = "ValueError" /\ err.layer = used_port_layer + 2
    /\ rect_arrays # <<>>
    /\ wires = WiresOnLayers({used_port_layer + 1})

\* C4: when the resolved top layer (the parameter if given, else the
\* technology default) is not above used_port_layer, draw_layout has failed
\* on the assertion and nothing has been added: no instance, no size, no
\* rectangle array, no wire, no pin.
Theorem_C4 ==
    /\ pc # "start" => top_layer = (IF p_top_layer # 0 THEN p_top_layer ELSE c_top_layer)
    /\ pc # "start" /\ used_port_layer >= top_layer =>
          pc = "error" /\ err.kind = "AssertionError" /\ Nothing

Witness_C4 ==
    /\ pc = "error" /\ err.kind = "AssertionError"
    /\ used_port_layer = top_layer /\ p_top_layer # 0 /\ p_top_layer < c_top_layer
    /\ cell_known

\* C5: on every routed layer the VDD track group starts at position 0 of the
\* layer's spread list and the VSS group at position 1, whatever the order of
\* the VDD and VSS pin rectangles.
Theorem_C5 ==
    pc \in {"up", "pins", "done"} =>
        /\ plus_tid.layer = routed[Len(routed)] /\ plus_tid.base = idx_list[1]
        /\ minus_tid.layer = routed[Len(routed)] /\ minus_tid.base = idx_list[2]
        /\ plus_port.net = "VDD" /\ plus_port.tid = plus_tid
        /\ minus_port.net = "VSS" /\ minus_port.tid = minus_tid

Witness_C5 ==
    /\ pc = "pins" /\ Len(routed) >= 2
    /\ vdd_hm[1][2] > vdd_hm[2][2] /\ vss_hm[1][2] > vss_hm[2][2]
    /\ plus_tid.base = idx_list[1] /\ idx_list[1] < idx_list[2]

\* C6: a run that completes has published exactly one VDD pin and one VSS
\* pin, both connectable, not hidden, and on top_layer; they are the final
\* wires, which are on top_layer; every other pin is a hidden NC pin.
Theorem_C6 ==
    pc = "done" =>
        /\ used_port_layer < top_layer
        /\ plus_port.layer = top_layer /\ minus_port.layer = top_layer
        /\ \A net \in SupplyNets :
              LET ps == {q \in pins : q.name = net}
              IN  /\ Cardinality(ps) = 1
                  /\ \A q \in ps : q.layer = top_layer /\ q.connect /\ ~q.hide
        /\ WirePin("VDD", plus_port) \in pins /\ WirePin("VSS", minus_port) \in pins
        /\ \A q \in pins : q.name \notin SupplyNets => q.name = "NC" /\ q.hide

Witness_C6 ==
    pc = "done" /\ top_layer = used_port_layer + 1 /\ Cardinality(pins) = 3

\* C7: a spec whose pitches are both 0 (given or defaulted) yields one
\* rectangle, num_x = num_y = 1, from the margin-adjusted low corner to the
\* margin-adjusted high corner of the bounding box; w_unit and h_unit are not
\* read, so their absence raises nothing.
Theorem_C7 ==
    /\ \A i \in DOMAIN rect_arrays :
          LET ra == rect_arr_list[i]
              em == Get(ra, "edge_margin", EmptyMap)
              a == rect_arrays[i]
          IN  Get(ra, "spx", 0) = 0 /\ Get(ra, "spy", 0) = 0 =>
                /\ a.num_x = 1 /\ a.num_y = 1
                /\ a.box = <<bbox[1] + Get(em, "xl", 0), bbox[2] + Get(em, "yl", 0),
                            bbox[3] + Get(em, "xh", 0), bbox[4] + Get(em, "yh", 0)>>
    /\ pc # "rects" /\ (\A i \in DOMAIN rect_arr_list :
                           Get(rect_arr_list[i], "spx", 0) = 0 /\ Get(rect_arr_list[i], "spy", 0) = 0)
          => pc # "error" /\ Len(rect_arrays) = Len(rect_arr_list)

Witness_C7 ==
    /\ pc = "route" /\ Len(rect_arrays) = 1
    /\ LET ra == rect_arr_list[1]
       IN  /\ "spx" \notin DOMAIN ra /\ "spy" \in DOMAIN ra /\ ra["spy"] = 0
           /\ "w_unit" \in DOMAIN ra /\ "h_unit" \notin DOMAIN ra
           /\ "edge_margin" \in DOMAIN ra /\ DOMAIN ra["edge_margin"] = {"xl", "yh"}
    /\ rect_arrays[1].box = <<1, 0, bbox[3], bbox[4] - 1>>
    /\ rect_arrays[1].box[3] - rect_arrays[1].box[1] > rect_arr_list[1]["w_unit"]

\* The claim's statement for one axis with a pitch: the count, the base
\* rectangle, and the count being the largest that keeps every copy inside.
AxisClaim(low, high, unit, pitch, num, box_lo, box_hi) ==
    pitch > 0 /\ high - low >= unit =>
        /\ num = (high - low - unit) \div pitch + 1
        /\ box_lo = low /\ box_hi = low + unit
        /\ num >= 1
        /\ low + (num - 1) * pitch + unit <= high
        /\ high < low + num * pitch + unit

\* C8: on an axis with pitch > 0 whose margin-adjusted span [low, high] is at
\* least unit_size long, the repeat count is floor((high-low-unit)/pitch)+1,
\* the base rectangle is [low, low+unit], the count is at least 1 and it is
\* the largest count whose last copy still ends inside the span.
Theorem_C8 ==
    \A i \in DOMAIN rect_arrays :
        LET ra == rect_arr_list[i]
            em == Get(ra, "edge_margin", EmptyMap)
            a == rect_arrays[i]
        IN  /\ Get(ra, "spx", 0) # 0 =>
                  AxisClaim(bbox[1] + Get(em, "xl", 0), bbox[3] + Get(em, "xh", 0),
                            ra["w_unit"], ra["spx"], a.num_x, a.box[1], a.box[3])
            /\ Get(ra, "spy", 0) # 0 =>
                  AxisClaim(bbox[2] + Get(em, "yl", 0), bbox[4] + Get(em, "yh", 0),
                            ra["h_unit"], ra["spy"], a.num_y, a.box[2], a.box[4])

Witness_C8 ==
    /\ pc = "route" /\ Len(rect_arrays) = 1
    /\ rect_arrays[1].spx = 2 /\ rect_arrays[1].num_x = 2
    /\ rect_arrays[1].box[1] = 0 /\ rect_arrays[1].box[3] = 1 /\ bbox[3] = 3
    /\ rect_arrays[1].spy = 1 /\ rect_arrays[1].num_y = 2
    /\ rect_arrays[1].box[2] = 1 /\ rect_arrays[1].box[4] = 2

EvenlySpaced(idx) ==
    /\ \A i \in 1..(Len(idx) - 1) : idx[i] < idx[i + 1]
    /\ \A i \in 1..(Len(idx) - 1) : idx[i + 1] - idx[i] = idx[2] - idx[1]

\* C9: after a layer is routed, with m fitting wires: n = floor((m+2)/2) >= 1
\* wires per net, the spread list has 2n entries, VDD is on idx[0] + k*p and
\* VSS on idx[1] + k*p for k < n with p = 2*(idx[1]-idx[0]); for an increasing,
\* evenly spaced spread list the two track sets are disjoint, alternate along
\* the list and together are the list.
Theorem_C9 ==
    pc \in {"up", "pins", "done"} =>
        LET n == (num_wires + 2) \div 2
            p == 2 * (idx_list[2] - idx_list[1])
            vdd == Tracks(plus_tid)
            vss == Tracks(minus_tid)
        IN  /\ n >= 1
            /\ Len(idx_list) = 2 * n
            /\ plus_tid.num = n /\ minus_tid.num = n
            /\ plus_tid.pitch = p /\ minus_tid.pitch = p
            /\ vdd = {idx_list[1] + k * p : k \in 0..(n - 1)}
            /\ vss = {idx_list[2] + k * p : k \in 0..(n - 1)}
            /\ EvenlySpaced(idx_list) =>
                  /\ vdd \cap vss = {}
                  /\ vdd \cup vss = Range(idx_list)
                  /\ \A i \in DOMAIN idx_list :
                        IF i % 2 = 1 THEN idx_list[i] \in vdd ELSE idx_list[i] \in vss

Witness_C9 ==
    /\ pc = "up" /\ Len(routed) = 2 /\ num_wires = 2
    /\ idx_list = <<0, 1, 2, 3>>
    /\ Tracks(plus_tid) = {0, 2} /\ Tracks(minus_tid) = {1, 3}

\* C10 as stated: add_instance calls with fresh names leave exactly 'XINST'
\* (with its original master) plus the added names; post_design then removes
\* exactly 'XINST' and the pins IN, OUT, VSUP; and a call that ends in an
\* error leaves the instance set unchanged.
Claim_C10 ==
    [][/\ sch_err' # "" => DOMAIN sch_insts' = DOMAIN sch_insts
       /\ sch_err' = "" /\ sch_last'.op \in {"add_instance", "add_transistor"} =>
             /\ DOMAIN sch_insts' = DOMAIN sch_insts \cup {sch_last'.inst_name}
             /\ sch_insts'[prev_name] = sch_insts[prev_name]
             /\ sch_insts'[prev_name].master = RefMaster
       /\ sch_last'.op = "post_design" /\ sch_last # sch_last' =>
             /\ DOMAIN sch_insts' = DOMAIN sch_insts \ {"XINST"}
             /\ sch_pins' = sch_pins \ {"IN", "OUT", "VSUP"}
      ]_vars

====
